---- MODULE Spec2Model ----
(***************************************************************************)
(* Model of the domain adaptation orchestrator of KPLA:                    *)
(*   KernelMethod (models/plain_kernel/method.py) and its concrete         *)
(*   strategy FullAdapt (models/plain_kernel/adaptation.py).               *)
(*                                                                         *)
(* Arrays are abstracted to the set of training rows they hold and the     *)
(* block names they carry; fitted estimators are symbolic terms that       *)
(* record which rows, which blocks and which other estimator they were     *)
(* built from; a prediction is the symbolic application of a bridge to a   *)
(* test set and a CME.  Python exceptions end the running call.            *)
(***************************************************************************)
EXTENDS Integers, Sequences, FiniteSets, TLC

\* ------------------------------------------------------------------ bounds
MaxRows == 4        \* the largest number of training rows of a domain
MaxErr == 1         \* mean squared errors range over 0..MaxErr
MaxClasses == 2     \* the largest one-hot width of the Y blocks

\* --------------------------------------------------------------- constants
Domains == {"source", "target"}
Tasks == {"r", "c", "x"}       \* "x" stands for any unsupported task flag
Combos == Domains \X Domains   \* <<h_domain, cme_domain>>

None == [isNone |-> TRUE]

\* ------------------------------------------------------------------ state
VARIABLES
    source_train,      \* self.source_train : a dataset dict, or a list of three after split_data
    target_train,      \* self.target_train
    source_test,       \* self.source_test
    target_test,       \* self.target_test
    split,             \* self.split
    sc,                \* self.sc
    lam_set,           \* self.lam_set
    method_set,        \* self.method_set
    kernel_dict,       \* self.kernel_dict
    source_estimator,  \* self.source_estimator : None or a bundle
    target_estimator,  \* self.target_estimator
    is_fitted,         \* self._is_fitted
    classes_,          \* self.classes_ (None until a classification fit records it)
    h_domain,          \* self.h_domain
    cme_domain,        \* self.cme_domain
    mse,               \* data: mean squared error of predict(target_test X, h, cme) against target_test Y
    pc,                \* position of the running call: "idle" when no call runs
    args,              \* name and arguments of the running call, None when no call runs
    eval_list,         \* evaluation's local list of records
    reads,             \* <<domain, block>> pairs of the training data read by the last fit call
    fit_done,          \* arguments of the last fit call if it returned, None otherwise
    last,              \* how the last call ended, None while a call runs
    fold_auc,          \* data of the bandwidth search: held-out score of every candidate on every fold
    fold_raises,       \* data of the bandwidth search: the fold evaluation that raises, None if none does
    source_n,          \* data of the bandwidth search: the rows of a source training environment
    fold_fits,         \* the fits every candidate's evaluation has performed, in order
    results,           \* the result list of pool.map, None where a candidate is still being evaluated
    idx,               \* the selected grid position
    best_msa,          \* the selected model
    predictY,          \* the prediction of the selected model
    samples            \* the calls of the data generators so far, each with the dictionary it returned

vars == <<source_train, target_train, source_test, target_test, split, sc, lam_set,
          method_set, kernel_dict, source_estimator, target_estimator, is_fitted,
          classes_, h_domain, cme_domain, mse, pc, args, eval_list, reads, fit_done, last,
          fold_auc, fold_raises, source_n, fold_fits, results, idx, best_msa, predictY,
          samples>>

\* the state of the model selection script
search == <<fold_auc, fold_raises, source_n, fold_fits, results, idx, best_msa, predictY>>

\* the fields of the orchestrator object (everything but the call bookkeeping)
self == <<source_train, target_train, source_test, target_test, split, sc, lam_set,
          method_set, kernel_dict, source_estimator, target_estimator, is_fitted,
          classes_, h_domain, cme_domain>>

\* ------------------------------------------------------------ Python values
\* how a call ended: the call (its name and arguments) and what it returned or raised
Returned(call, v) == [call |-> call, outcome |-> "returned", value |-> v]
Raised(call, e, stage) == [call |-> call, outcome |-> "raised", error |-> e, stage |-> stage]
\* an exception out of a domain fit, with the stages that fit had completed
RaisedInFit(call, res, stage) ==
    [call |-> call, outcome |-> "raised", error |-> res.error, stage |-> stage,
     fitted |-> res.fitted]
Ok(v) == [ok |-> TRUE, value |-> v]
Err(e) == [ok |-> FALSE, error |-> e]

\* a dataset dict of one domain: block names, the rows it holds, the width of Y
Dataset(name, keys, rows, ycols) ==
    [kind |-> "dict", name |-> name, keys |-> keys, rows |-> rows, ycols |-> ycols]
IsDict(d) == d.kind = "dict"
IsList(d) == d.kind = "list"

\* ----------------------------------------------------------- split_data
\* np.random.RandomState(seed=42).permutation(n), n <= 8 (MT19937, legacy shuffle)
Permutation42(n) ==
    CASE n = 1 -> <<0>>
      [] n = 2 -> <<1, 0>>
      [] n = 3 -> <<0, 1, 2>>
      [] n = 4 -> <<1, 3, 0, 2>>
      [] n = 5 -> <<1, 4, 2, 0, 3>>
      [] n = 6 -> <<0, 1, 5, 2, 4, 3>>
      [] n = 7 -> <<0, 1, 5, 2, 4, 3, 6>>
      [] n = 8 -> <<1, 5, 0, 7, 2, 4, 3, 6>>

Min(a, b) == IF a <= b THEN a ELSE b

\* Python slice index[lo:hi] of a 0-based array, as the set of its entries
Slice(index, lo, hi) == {index[i] : i \in (Min(lo, Len(index)) + 1)..Min(hi, Len(index))}

\* int(0.33 * n) and int(0.67 * n)
SplitPoints(n) == <<(33 * n) \div 100, (67 * n) \div 100>>

\* a split whose middle part starts at the front again
NpSplit_overlap(index, points) ==
    << Slice(index, 0, points[1]),
       Slice(index, 0, points[2]),
       Slice(index, points[2], Len(index)) >>

\* np.split(index, [a, b]) : index[:a], index[a:b], index[b:]
NpSplit(index, points) ==
    << Slice(index, 0, points[1]),
       Slice(index, points[1], points[2]),
       Slice(index, points[2], Len(index)) >>

split_data_widx(data, split_index) ==
    Dataset(data.name, data.keys, split_index, data.ycols)

TrainList(data, split_id) ==
    [kind |-> "list", parts |-> [i \in 1..3 |-> split_data_widx(data, split_id[i])]]

\* FullAdapt.split_data: the new <<source_train, target_train>>, or the error raised.
\* The target split points are computed from the source row count n.
split_data(src, tgt) ==
    IF IsList(src) THEN [ok |-> FALSE, error |-> "TypeError", source_train |-> src, target_train |-> tgt]
    ELSE LET n == Cardinality(src.rows)
             srcList == TrainList(src, NpSplit(Permutation42(n), SplitPoints(n)))
         IN IF IsList(tgt)
            THEN [ok |-> FALSE, error |-> "TypeError", source_train |-> srcList, target_train |-> tgt]
            ELSE LET n2 == Cardinality(tgt.rows)
                     tgtList == TrainList(tgt, NpSplit(Permutation42(n2), SplitPoints(n)))
                 IN [ok |-> TRUE, source_train |-> srcList, target_train |-> tgtList]

\* ------------------------------------------------- estimators (symbolic)
\* ConditionalMeanEmbed(y, x, ...): the embedding of block y given the blocks
\* xlist, trained on the rows of train_data
ConditionalMeanEmbed(y, xlist, train_data) ==
    [kind |-> "cme", y |-> y, Xlist |-> xlist, domain |-> train_data.name, rows |-> train_data.rows]

\* a bridge that is always trained from an embedding of the source domain
BridgeH0_unchained(cme_w_xc, covars, train_data, task) ==
    [kind |-> "h0", clf |-> (task = "c"), cme_w_xc |-> [cme_w_xc EXCEPT !.domain = "source"],
     covars |-> covars, y |-> "Y", domain |-> train_data.name, rows |-> train_data.rows]

\* BridgeH0 (task "r") / BridgeH0CLF (task "c")
BridgeH0(cme_w_xc, covars, train_data, task) ==
    [kind |-> "h0", clf |-> (task = "c"), cme_w_xc |-> cme_w_xc, covars |-> covars,
     y |-> "Y", domain |-> train_data.name, rows |-> train_data.rows]

\* the numerical solves of one domain fit go through ("ok"), or the solve of
\* the named stage fails (singular regularized Gram matrix)
NumericalOutcomes == {"ok", "cme_w_xc", "cme_wc_x", "h0"}

Range(f) == {f[i] : i \in DOMAIN f}
ReadPairs(train_data, keys) == {<<train_data.name, k>> : k \in keys}
Fitted(est, rd) == [ok |-> TRUE, value |-> est, reads |-> rd]
\* a failed domain fit: the error, the blocks read, the stages fitted before it
Failed(e, rd, fits) == [ok |-> FALSE, error |-> e, reads |-> rd, fitted |-> fits]

\* the configuration entries a CME stage reads while its arguments are built
HasCmeConfig(stage) ==
    /\ {"cme", "lam_min", "lam_max"} \subseteq DOMAIN lam_set
    /\ stage \in DOMAIN kernel_dict
    /\ "cme" \in DOMAIN method_set

HasH0Config ==
    /\ {"h0", "lam_min", "lam_max"} \subseteq DOMAIN lam_set
    /\ "h0" \in DOMAIN kernel_dict
    /\ "h0" \in DOMAIN method_set

\* FullAdapt._fit_one_domain(domain_data, task); numeric is the outcome of the
\* numerical solves of this call
_fit_one_domain(domain_data, task, numeric) ==
    IF (split /\ ~IsList(domain_data)) THEN Failed("KeyError", {}, << >>)
    ELSE IF (~split /\ ~IsDict(domain_data)) THEN Failed("TypeError", {}, << >>)
    ELSE
    LET d0 == IF split THEN domain_data.parts[1] ELSE domain_data
        d1 == IF split THEN domain_data.parts[2] ELSE domain_data
        d2 == IF split THEN domain_data.parts[3] ELSE domain_data
        cme_w_xc == ConditionalMeanEmbed("W", <<"X", "C">>, d0)
        cme_wc_x == ConditionalMeanEmbed("WC", <<"X">>, d1)
        xlist == cme_w_xc.Xlist
        h0 == BridgeH0(cme_w_xc, Range(xlist), d2, task)
        r0 == ReadPairs(d0, {"X", "C", "W"})
        r1 == r0 \cup ReadPairs(d1, {"X", "W", "C"})
        r2 == r1 \cup ReadPairs(d2, Range(xlist))
        r3 == r2 \cup ReadPairs(d2, {"Y"})
        one == <<"cme_w_xc">>
        two == <<"cme_w_xc", "cme_wc_x">>
    IN  IF ~({"X", "C", "W"} \subseteq d0.keys) THEN Failed("KeyError", {}, << >>)
        ELSE IF ~HasCmeConfig("cme_w_xc") THEN Failed("KeyError", r0, << >>)
        ELSE IF numeric = "cme_w_xc" THEN Failed("NumericalError", r0, << >>)
        ELSE IF ~({"X", "W", "C"} \subseteq d1.keys) THEN Failed("KeyError", r0, one)
        ELSE IF ~HasCmeConfig("cme_wc_x") THEN Failed("KeyError", r1, one)
        ELSE IF numeric = "cme_wc_x" THEN Failed("NumericalError", r1, one)
        ELSE IF ~(Range(xlist) \subseteq d2.keys) THEN Failed("KeyError", r1, two)
        ELSE IF task \notin {"r", "c"} THEN Failed("UnboundLocalError", r2, two)
        ELSE IF "Y" \notin d2.keys THEN Failed("KeyError", r2, two)
        ELSE IF ~HasH0Config THEN Failed("KeyError", r3, two)
        ELSE IF numeric = "h0" THEN Failed("NumericalError", r3, two)
        ELSE Fitted([cme_w_xc |-> cme_w_xc, cme_wc_x |-> cme_wc_x, h0 |-> h0], r3)

\* FullAdapt._fit_target_domain(domain_data, task)
_fit_target_domain(domain_data, task, numeric) ==
    IF ~IsDict(domain_data) THEN Failed("TypeError", {}, << >>)
    ELSE
    LET cme_wc_x == ConditionalMeanEmbed("WC", <<"X">>, domain_data)
        r0 == ReadPairs(domain_data, {"X", "W", "C"})
    IN  IF ~({"X", "W", "C"} \subseteq domain_data.keys) THEN Failed("KeyError", {}, << >>)
        ELSE IF ~HasCmeConfig("cme_wc_x") THEN Failed("KeyError", r0, << >>)
        ELSE IF numeric = "cme_wc_x" THEN Failed("NumericalError", r0, << >>)
        ELSE Fitted([cme_w_x |-> cme_wc_x], r0)

\* ------------------------------------------------------ predict and score
\* a held-out data dict with blocks X and Y; a dict {"X": ...} of covariates
TestData(name) == [kind |-> "dict", name |-> name, keys |-> {"X", "Y"}]
Block(data, key) == [data |-> data.name, block |-> key]
PyDict(x) == [type |-> "dict", X |-> x]
PyArray(x) == [type |-> "ndarray", data |-> x]

\* h0.get_exp_y_x(test_x, cme_wc_x)
get_exp_y_x(h0, test_x, cme_wc_x) == [h0 |-> h0, test_x |-> test_x, cme |-> cme_wc_x]

\* predict with the two domain arguments exchanged
predict_swapped(test_x, hd, cd) ==
    LET h_est == IF cd = "source" THEN source_estimator ELSE target_estimator
        c_est == IF hd = "source" THEN source_estimator ELSE target_estimator
    IN  IF h_est = None THEN Err("TypeError")
        ELSE IF "h0" \notin DOMAIN h_est THEN Err("KeyError")
        ELSE IF c_est = None THEN Err("TypeError")
        ELSE IF "cme_wc_x" \notin DOMAIN c_est THEN Err("KeyError")
        ELSE Ok(get_exp_y_x(h_est.h0, test_x, c_est.cme_wc_x))

\* FullAdapt.predict(test_x, h_domain, cme_domain)
predict(test_x, hd, cd) ==
    LET h_est == IF hd = "source" THEN source_estimator ELSE target_estimator
        c_est == IF cd = "source" THEN source_estimator ELSE target_estimator
    IN  IF h_est = None THEN Err("TypeError")
        ELSE IF "h0" \notin DOMAIN h_est THEN Err("KeyError")
        ELSE IF c_est = None THEN Err("TypeError")
        ELSE IF "cme_wc_x" \notin DOMAIN c_est THEN Err("KeyError")
        ELSE Ok(get_exp_y_x(h_est.h0, test_x, c_est.cme_wc_x))

\* a metric value, kept symbolic: which metric of which prediction against which Y
Metric(name, predict_y, test_y) == [metric |-> name, predict_y |-> predict_y, test_y |-> test_y]

\* KernelMethod.score(predict_y, test_y, task)
score(predict_y, test_y, task) ==
    IF task = "r" THEN Ok([l2 |-> Metric("l2", predict_y, test_y)])
    ELSE IF task = "c"
    THEN Ok([hard_acc |-> Metric("hard_acc", predict_y, test_y),
             auc |-> Metric("auc", predict_y, test_y)])
    ELSE Err("UnboundLocalError")

\* a predict_proba that predicts with the adapted combination
predict_proba_adapted(X) ==
    LET covar_x == IF X.type = "dict" THEN X ELSE PyDict(X.data)
        predict_y == predict(covar_x, "source", "target")
    IN  IF predict_y.ok THEN Ok([normalize |-> predict_y.value]) ELSE predict_y

\* FullAdapt.predict_proba(X)
predict_proba(X) ==
    LET covar_x == IF X.type = "dict" THEN X ELSE PyDict(X.data)
        predict_y == predict(covar_x, h_domain, cme_domain)
    IN  IF predict_y.ok THEN Ok([normalize |-> predict_y.value]) ELSE predict_y

\* KernelMethod.get_params()
get_params ==
    [lam_set |-> lam_set, method_set |-> method_set, kernel_dict |-> kernel_dict,
     split |-> split, scale |-> sc]

\* the plan with the second step predicting from the target bridge and the
\* source embedding
EvalPlan_crossed ==
    << [task |-> "source-source", data |-> "source", h |-> "source", cme |-> "source"],
       [task |-> "target-source", data |-> "source", h |-> "target", cme |-> "source"],
       [task |-> "target-target", data |-> "target", h |-> "target", cme |-> "target"],
       [task |-> "source-target", data |-> "target", h |-> "source", cme |-> "source"],
       [task |-> "adaptation", data |-> "target", h |-> "source", cme |-> "target"] >>

\* the plan with the last step predicting from the source bundle alone
EvalPlan_unadapted ==
    << [task |-> "source-source", data |-> "source", h |-> "source", cme |-> "source"],
       [task |-> "target-source", data |-> "source", h |-> "target", cme |-> "target"],
       [task |-> "target-target", data |-> "target", h |-> "target", cme |-> "target"],
       [task |-> "source-target", data |-> "target", h |-> "source", cme |-> "source"],
       [task |-> "adaptation", data |-> "target", h |-> "source", cme |-> "source"] >>

\* the five steps of FullAdapt.evaluation, in program order: the record's
\* label, the test set it uses and the h_domain / cme_domain it predicts with
EvalPlan ==
    << [task |-> "source-source", data |-> "source", h |-> "source", cme |-> "source"],
       [task |-> "target-source", data |-> "source", h |-> "target", cme |-> "target"],
       [task |-> "target-target", data |-> "target", h |-> "target", cme |-> "target"],
       [task |-> "source-target", data |-> "target", h |-> "source", cme |-> "source"],
       [task |-> "adaptation", data |-> "target", h |-> "source", cme |-> "target"] >>

\* the test set evaluation scores on for one side: the caller's data dict if
\* given, the stored test set otherwise
EvalData(side) ==
    IF side = "source"
    THEN (IF args.source_data # None THEN args.source_data ELSE source_test)
    ELSE (IF args.target_data # None THEN args.target_data ELSE target_test)

\* one predict + score + append of evaluation: the record appended, or the error
EvalRecord(k) ==
    LET step == EvalPlan[k]
        data == EvalData(step.data)
        predict_y == predict(PyDict(Block(data, "X")), step.h, step.cme)
        error == IF predict_y.ok
                 THEN score(predict_y.value, Block(data, "Y"), args.task)
                 ELSE predict_y
    IN  IF error.ok THEN Ok([task |-> step.task, predict_error |-> error.value]) ELSE error

\* -------------------------------------------------------------- constructor
\* lam_set=None installs this default
DefaultLamSet == [cme |-> "None", h0 |-> "None", m0 |-> "None"]
SuppliedLamSet == [cme |-> "1e-4", h0 |-> "1e-4", m0 |-> "1e-4", lam_min |-> -4, lam_max |-> -1]
DefaultMethodSet == [cme |-> "original", h0 |-> "original", m0 |-> "original"]
SuppliedKernelDict ==
    [cme_w_xc |-> {"X", "C", "Y"}, cme_wc_x |-> {"X", "Y"}, cme_c_x |-> {"X", "Y"},
     cme_w_x |-> {"X", "Y"}, h0 |-> {"C"}, m0 |-> {"C", "X"}]

Rows(n) == 0..(n - 1)
TrainBlocks == {"X", "W", "C", "Y"}

\* no bandwidth search and no data generation run beside the orchestrator
NoSearch ==
    /\ fold_auc = None /\ results = None /\ idx = None /\ best_msa = None /\ predictY = None
    /\ fold_raises = None /\ source_n = None /\ fold_fits = None
    /\ samples = None

\* KernelMethod.__init__ / FullAdapt.__init__ on the caller's data and options:
\* training sets of the given sizes and one-hot widths, and the given tables
\* of true errors on the target test set
Construct(sizes, widths, errors) ==
    /\ \E n \in sizes, k \in widths :
         /\ source_train = Dataset("source", TrainBlocks, Rows(n), k)
         /\ \E n2 \in sizes, labelled \in BOOLEAN :
              target_train = Dataset("target", IF labelled THEN TrainBlocks ELSE TrainBlocks \ {"Y"},
                                     Rows(n2), k)
    /\ source_test = TestData("source_test")
    /\ target_test = TestData("target_test")
    /\ split \in BOOLEAN
    /\ sc = 1
    /\ lam_set \in {DefaultLamSet, SuppliedLamSet}
    /\ method_set = DefaultMethodSet
    /\ kernel_dict = SuppliedKernelDict
    /\ source_estimator = None
    /\ target_estimator = None
    /\ is_fitted = FALSE
    /\ classes_ = None
    /\ h_domain = "source"
    /\ cme_domain = "source"
    /\ mse \in errors
    /\ NoSearch
    /\ eval_list = << >>
    /\ reads = {}
    /\ fit_done = None
    /\ last = None

\* no call has been made yet
NoCall == pc = "idle" /\ args = None

\* training sets of one row (the split leaves two parts empty), and of the two
\* largest sizes (the domains differ in size, every part gets rows); Y of one
\* column or of the largest width
TrainSizes == {1, MaxRows - 1, MaxRows}
YWidths == {1, MaxClasses}

Init == Construct(TrainSizes, YWidths, {[c \in Combos |-> 0]}) /\ NoCall

\* the same program on training sets of one size, over every table of errors
InitErr == Construct({MaxRows}, {MaxClasses}, [Combos -> 0..MaxErr]) /\ NoCall

\* ------------------------------------------------------------------- fit
\* KernelMethod.fit(task, train_target) runs in four steps; no other call
\* runs in between (single-threaded), an exception ends the call.
AllBlocks(data) == {<<data.name, k>> : k \in data.keys}

\* fit, lines 152-162: the call starts; with split set, split_data()
FitBegin(task, train_target) ==
    /\ pc = "idle"
    /\ LET a == [op |-> "fit", task |-> task, train_target |-> train_target]
           res == split_data(source_train, target_train)
       IN /\ fit_done' = None
          /\ IF ~split
             THEN /\ pc' = "fit_source"
                  /\ args' = a
                  /\ last' = None
                  /\ reads' = {}
                  /\ UNCHANGED <<source_train, target_train>>
             ELSE /\ source_train' = res.source_train
                  /\ target_train' = res.target_train
                  /\ IF res.ok
                     THEN /\ pc' = "fit_source"
                          /\ args' = a
                          /\ last' = None
                          /\ reads' = AllBlocks(source_train) \cup AllBlocks(target_train)
                     ELSE /\ pc' = "idle"
                          /\ args' = None
                          /\ last' = Raised(a, res.error, "split")
                          /\ reads' = {}
    /\ UNCHANGED <<source_test, target_test, split, sc, lam_set, method_set, kernel_dict,
                   source_estimator, target_estimator, is_fitted, classes_, h_domain,
                   cme_domain, mse, samples, search, eval_list>>

\* the source step with the fitted flag raised as soon as the source bundle is there
FitSource_marks ==
    /\ pc = "fit_source"
    /\ \E numeric \in NumericalOutcomes :
         LET res == _fit_one_domain(source_train, args.task, numeric)
         IN /\ reads' = reads \cup res.reads
            /\ IF res.ok
               THEN /\ source_estimator' = res.value
                    /\ is_fitted' = TRUE
                    /\ pc' = "fit_target"
                    /\ UNCHANGED <<args, last>>
               ELSE /\ pc' = "idle"
                    /\ args' = None
                    /\ last' = RaisedInFit(args, res, "source")
                    /\ UNCHANGED <<source_estimator, is_fitted>>
    /\ UNCHANGED <<source_train, target_train, source_test, target_test, split, sc, lam_set,
                   method_set, kernel_dict, target_estimator, classes_, h_domain,
                   cme_domain, mse, samples, search, eval_list, fit_done>>

\* fit, line 164: the source bundle
FitSource ==
    /\ pc = "fit_source"
    /\ \E numeric \in NumericalOutcomes :
         LET res == _fit_one_domain(source_train, args.task, numeric)
         IN /\ reads' = reads \cup res.reads
            /\ IF res.ok
               THEN /\ source_estimator' = res.value
                    /\ pc' = "fit_target"
                    /\ UNCHANGED <<args, last>>
               ELSE /\ pc' = "idle"
                    /\ args' = None
                    /\ last' = RaisedInFit(args, res, "source")
                    /\ UNCHANGED source_estimator
    /\ UNCHANGED <<source_train, target_train, source_test, target_test, split, sc, lam_set,
                   method_set, kernel_dict, target_estimator, is_fitted, classes_, h_domain,
                   cme_domain, mse, samples, search, eval_list, fit_done>>

\* fit, lines 167-174: the target bundle, full or reduced
FitTarget ==
    /\ pc = "fit_target"
    /\ \E numeric \in NumericalOutcomes :
         LET res == IF args.train_target
                    THEN _fit_one_domain(target_train, args.task, numeric)
                    ELSE _fit_target_domain(target_train, args.task, numeric)
         IN /\ reads' = reads \cup res.reads
            /\ IF res.ok
               THEN /\ target_estimator' = res.value
                    /\ pc' = "fit_mark"
                    /\ UNCHANGED <<args, last>>
               ELSE /\ pc' = "idle"
                    /\ args' = None
                    /\ last' = RaisedInFit(args, res, "target")
                    /\ UNCHANGED target_estimator
    /\ UNCHANGED <<source_train, target_train, source_test, target_test, split, sc, lam_set,
                   method_set, kernel_dict, source_estimator, is_fitted, classes_, h_domain,
                   cme_domain, mse, samples, search, eval_list, fit_done>>

\* fit, lines 176-178: the fitted flag, then classes_ for classification
FitMark ==
    /\ pc = "fit_mark"
    /\ pc' = "idle"
    /\ args' = None
    /\ is_fitted' = TRUE
    /\ IF args.task = "c" /\ ~IsDict(source_train)
       THEN /\ last' = Raised(args, "TypeError", "mark")
            /\ UNCHANGED <<classes_, fit_done>>
       ELSE /\ classes_' = IF args.task = "c"
                           THEN [i \in 1..source_train.ycols |-> i - 1]
                           ELSE classes_
            /\ fit_done' = args
            /\ last' = Returned(args, None)
    /\ UNCHANGED <<source_train, target_train, source_test, target_test, split, sc, lam_set,
                   method_set, kernel_dict, source_estimator, target_estimator, h_domain,
                   cme_domain, mse, samples, search, eval_list, reads>>

\* -------------------------------------------------------- the read-only calls
\* a call that runs in one step
Finish(call, res) ==
    /\ pc = "idle"
    /\ last' = IF res.ok THEN Returned(call, res.value) ELSE Raised(call, res.error, "call")
    /\ UNCHANGED <<self, mse, samples, search, pc, args, eval_list, reads, fit_done>>

\* the covariates a caller may pass
TestInputs == {Block(TestData(nm), "X") : nm \in {"source_test", "target_test"}}

Predict(test_x, hd, cd) ==
    Finish([op |-> "predict", test_x |-> test_x, h_domain |-> hd, cme_domain |-> cd],
           predict(test_x, hd, cd))

PredictProba(X) ==
    Finish([op |-> "predict_proba", X |-> X], predict_proba(X))

Score(predict_y, test_y, task) ==
    Finish([op |-> "score", predict_y |-> predict_y, test_y |-> test_y, task |-> task],
           score(predict_y, test_y, task))

GetParams ==
    Finish([op |-> "get_params"], Ok(get_params))

\* an evaluation that keeps the caller's source data as the stored test set
EvalBegin_stores(task, source_data, target_data) ==
    /\ pc = "idle"
    /\ pc' = "eval"
    /\ args' = [op |-> "evaluation", task |-> task, source_data |-> source_data,
                target_data |-> target_data]
    /\ eval_list' = << >>
    /\ last' = None
    /\ source_test' = IF source_data # None THEN source_data ELSE source_test
    /\ UNCHANGED <<source_train, target_train, target_test, split, sc, lam_set, method_set,
                   kernel_dict, source_estimator, target_estimator, is_fitted, classes_,
                   h_domain, cme_domain, mse, samples, search, reads, fit_done>>

\* evaluation, lines 232-241: the call starts with an empty eval_list
EvalBegin(task, source_data, target_data) ==
    /\ pc = "idle"
    /\ pc' = "eval"
    /\ args' = [op |-> "evaluation", task |-> task, source_data |-> source_data,
                target_data |-> target_data]
    /\ eval_list' = << >>
    /\ last' = None
    /\ UNCHANGED <<self, mse, samples, search, reads, fit_done>>

\* an evaluation that swallows a failing step and returns the records so far
EvalStep_partial ==
    /\ pc = "eval"
    /\ Len(eval_list) < Len(EvalPlan)
    /\ LET res == EvalRecord(Len(eval_list) + 1)
       IN IF res.ok
          THEN /\ eval_list' = Append(eval_list, res.value)
               /\ UNCHANGED <<pc, args, last>>
          ELSE /\ eval_list' = << >>
               /\ pc' = "idle"
               /\ args' = None
               /\ last' = Returned(args, eval_list)
    /\ UNCHANGED <<self, mse, samples, search, reads, fit_done>>

\* evaluation: the next predict, score and append; an exception ends the call
\* and the local eval_list is dropped
EvalStep ==
    /\ pc = "eval"
    /\ Len(eval_list) < Len(EvalPlan)
    /\ LET res == EvalRecord(Len(eval_list) + 1)
       IN IF res.ok
          THEN /\ eval_list' = Append(eval_list, res.value)
               /\ UNCHANGED <<pc, args, last>>
          ELSE /\ eval_list' = << >>
               /\ pc' = "idle"
               /\ args' = None
               /\ last' = Raised(args, res.error, Len(eval_list) + 1)
    /\ UNCHANGED <<self, mse, samples, search, reads, fit_done>>

\* evaluation, lines 350-353: the record set is returned
EvalReturn ==
    /\ pc = "eval"
    /\ Len(eval_list) = Len(EvalPlan)
    /\ pc' = "idle"
    /\ args' = None
    /\ last' = Returned(args, eval_list)
    /\ eval_list' = << >>
    /\ UNCHANGED <<self, mse, samples, search, reads, fit_done>>

\* the data dicts a caller may hand to evaluation
CallerData == {None, TestData("new_data")}

Next ==
    \/ \E task \in Tasks, train_target \in BOOLEAN : FitBegin(task, train_target)
    \/ FitSource
    \/ FitTarget
    \/ FitMark
    \/ \E x \in TestInputs, hd \in Domains, cd \in Domains : Predict(PyDict(x), hd, cd)
    \/ \E x \in TestInputs : PredictProba(PyDict(x)) \/ PredictProba(PyArray(x))
    \/ \E task \in Tasks : Score("predict_y", "test_y", task)
    \/ GetParams
    \/ \E task \in Tasks, sd \in CallerData, td \in CallerData : EvalBegin(task, sd, td)
    \/ EvalStep
    \/ EvalReturn

Spec == Init /\ [][Next]_vars

SpecErr == InitErr /\ [][Next]_vars

\* ================================================================ claims
Ended(op) == pc = "idle" /\ last # None /\ last.call.op = op
ReturnedFrom(op) == Ended(op) /\ last.outcome = "returned"
RaisedFrom(op) == Ended(op) /\ last.outcome = "raised"
\* the last fit call returned, with train_target = tt
FitCompleted(tt) == fit_done # None /\ fit_done.train_target = tt
BundleOf(d) == IF d = "source" THEN source_estimator ELSE target_estimator
FullKeys == {"cme_w_xc", "cme_wc_x", "h0"}
IsFull(est) == est # None /\ DOMAIN est = FullKeys
IsReduced(est) == est # None /\ Cardinality(DOMAIN est) = 1 /\ "h0" \notin DOMAIN est

\* C1: after fit(train_target=True) has returned, every predict(test_x, h_domain,
\* cme_domain) returns, and what it returns is the bridge h0 of the h_domain
\* bundle (a bridge trained on that domain) applied to test_x with the cme_wc_x
\* embedding of the cme_domain bundle (the embedding of (W,C) given X trained on
\* that domain).
C1_PredictCombines ==
    (Ended("predict") /\ FitCompleted(TRUE)) =>
        /\ last.outcome = "returned"
        /\ last.value.h0 = BundleOf(last.call.h_domain).h0
        /\ last.value.h0.kind = "h0"
        /\ last.value.h0.domain = last.call.h_domain
        /\ last.value.cme = BundleOf(last.call.cme_domain).cme_wc_x
        /\ last.value.cme.y = "WC"
        /\ last.value.cme.domain = last.call.cme_domain
        /\ last.value.test_x = last.call.test_x

\* a cross-domain prediction (target bridge, source embedding) was returned
\* after a full fit
C1_Witness ==
    /\ ReturnedFrom("predict")
    /\ FitCompleted(TRUE)
    /\ last.call.h_domain = "target"
    /\ last.call.cme_domain = "source"
    /\ last.value.h0.domain = "target"

\* C2: after fit(train_target=False) has returned, predict(test_x, "source",
\* "target") returns the source bridge evaluated with the embedding fit on the
\* target domain.
C2_AdaptedPredictionAvailable ==
    (Ended("predict") /\ FitCompleted(FALSE)
        /\ last.call.h_domain = "source" /\ last.call.cme_domain = "target") =>
        /\ last.outcome = "returned"
        /\ last.value.h0.domain = "source"
        /\ last.value.cme.domain = "target"

\* C3: when train_target=False, fit fits on the target domain only a reduced
\* bundle (one CME, no bridge) and never reads the target block Y; the source
\* bundle, and the target bundle when train_target=True, are full bundles.
\* The reduced fit goes through whenever the numerical solve does.
C3_FitBundles ==
    Ended("fit") =>
        LET pastSource == last.outcome = "returned" \/ last.stage \in {"target", "mark"}
            pastTarget == last.outcome = "returned" \/ last.stage = "mark"
        IN  /\ pastSource => IsFull(source_estimator)
            /\ (pastTarget /\ last.call.train_target) => IsFull(target_estimator)
            /\ ~last.call.train_target =>
                 /\ <<"target", "Y">> \notin reads
                 /\ pastTarget => IsReduced(target_estimator)
                 /\ (pastSource /\ ~pastTarget) => last.error = "NumericalError"

\* C4: within one fit call the source bundle is assigned before the target
\* bundle is fit, the fitted flag is raised only after both are assigned, and
\* in every reachable state a raised flag implies both bundles are set.
C4_FitOrder ==
    /\ [](is_fitted => (source_estimator # None /\ target_estimator # None))
    /\ [][ /\ (pc' = "fit_source" => pc = "idle")
           /\ (pc' = "fit_target" => (pc = "fit_source" /\ IsFull(source_estimator')))
           /\ (pc' = "fit_mark" => (pc = "fit_target" /\ target_estimator' # None))
           /\ (source_estimator' # source_estimator => pc = "fit_source")
           /\ (target_estimator' # target_estimator => pc = "fit_target")
           /\ (is_fitted' # is_fitted =>
                 (pc = "fit_mark" /\ is_fitted' /\ source_estimator # None
                     /\ target_estimator # None))
         ]_vars

\* a fit call went through all four positions and returned
C4_Witness ==
    /\ ReturnedFrom("fit")
    /\ is_fitted
    /\ IsFull(source_estimator)
    /\ IsReduced(target_estimator)

\* C5: with split=True the split turns each domain's rows into three pairwise
\* disjoint parts whose union is all rows of the domain, and a bundle fit from
\* them trains cme_w_xc on the first part only, cme_wc_x on the second only and
\* h0 on the third only, so no row serves two stages of one domain.
PartitionOf(parts, rows) ==
    /\ \A i \in 1..3 : \A j \in 1..3 : (i # j) => (parts[i].rows \cap parts[j].rows = {})
    /\ UNION {parts[i].rows : i \in 1..3} = rows

StagesOn(est, parts) ==
    /\ est.cme_w_xc.rows = parts[1].rows
    /\ est.cme_wc_x.rows = parts[2].rows
    /\ est.h0.rows = parts[3].rows
    /\ est.cme_w_xc.rows \cap est.cme_wc_x.rows = {}
    /\ est.cme_w_xc.rows \cap est.h0.rows = {}
    /\ est.cme_wc_x.rows \cap est.h0.rows = {}

C5_DisjointStages ==
    [][ /\ (IsDict(source_train) /\ IsList(source_train')) =>
              PartitionOf(source_train'.parts, source_train.rows)
        /\ (IsDict(target_train) /\ IsList(target_train')) =>
              PartitionOf(target_train'.parts, target_train.rows)
        /\ (split /\ pc = "fit_source" /\ pc' = "fit_target") =>
              (IsList(source_train) /\ StagesOn(source_estimator', source_train.parts))
        /\ (split /\ pc = "fit_target" /\ pc' = "fit_mark") =>
              (IsList(target_train) /\ StagesOn(target_estimator', target_train.parts))
      ]_vars

\* both domains were split and fit, and each source stage got rows of its own
C5_Witness ==
    /\ split
    /\ is_fitted
    /\ IsList(source_train)
    /\ IsFull(target_estimator)
    /\ source_estimator.cme_w_xc.rows # {}
    /\ source_estimator.cme_wc_x.rows # {}
    /\ source_estimator.h0.rows # {}

\* C6: after a fit(train_target=True) that returned, evaluation (task "r" or
\* "c") returns exactly five records, in this order and with these predictions:
\* label, test set, bridge domain, CME domain.
C6_Expected ==
    << <<"source-source", "source", "source", "source">>,
       <<"target-source", "source", "target", "target">>,
       <<"target-target", "target", "target", "target">>,
       <<"source-target", "target", "source", "source">>,
       <<"adaptation", "target", "source", "target">> >>

\* the test set of a side in the call that ended: the caller's if it gave one
TestSetOf(side) ==
    IF side = "source"
    THEN (IF last.call.source_data = None THEN source_test ELSE last.call.source_data)
    ELSE (IF last.call.target_data = None THEN target_test ELSE last.call.target_data)

\* every metric of record r scores predict(X of d, h, c) against Y of d
Scores(r, d, h, c) ==
    \A m \in DOMAIN r.predict_error :
        LET t == r.predict_error[m]
        IN  /\ t.predict_y.h0 = BundleOf(h).h0
            /\ t.predict_y.h0.domain = h
            /\ t.predict_y.cme = BundleOf(c).cme_wc_x
            /\ t.predict_y.cme.domain = c
            /\ t.predict_y.test_x = PyDict(Block(d, "X"))
            /\ t.test_y = Block(d, "Y")

C6_EvaluationRecords ==
    (Ended("evaluation") /\ FitCompleted(TRUE)) =>
        /\ (last.outcome = "raised") => (last.call.task \notin {"r", "c"})
        /\ (last.outcome = "returned") =>
             /\ Len(last.value) = 5
             /\ \A i \in 1..5 :
                  /\ last.value[i].task = C6_Expected[i][1]
                  /\ Scores(last.value[i], TestSetOf(C6_Expected[i][2]),
                            C6_Expected[i][3], C6_Expected[i][4])

\* a regression evaluation of the stored test sets returned after a full fit
C6_Witness ==
    /\ ReturnedFrom("evaluation")
    /\ FitCompleted(TRUE)
    /\ last.call.task = "r"
    /\ last.call.source_data = None
    /\ last.call.target_data = None

\* C7 (as claimed): the record labelled "adaptation" is the bridge/CME
\* combination of minimal error on the target test set.
AdaptationRecord == CHOOSE r \in Range(last.value) : r.task = "adaptation"
ComboOf(r) == LET t == r.predict_error.l2.predict_y IN <<t.h0.domain, t.cme.domain>>

C7_AdaptationMinimizes ==
    (ReturnedFrom("evaluation") /\ last.call.task = "r" /\ last.call.target_data = None) =>
        \A c \in Combos : mse[ComboOf(AdaptationRecord)] <= mse[c]

\* C7 (amended): the record labelled "adaptation" is always the fixed
\* combination bridge = source, CME = target, scored on the target test set,
\* whatever the errors of the combinations are.
C7_AdaptationFixed ==
    ReturnedFrom("evaluation") =>
        /\ Cardinality({i \in 1..Len(last.value) : last.value[i].task = "adaptation"}) = 1
        /\ Scores(AdaptationRecord, TestSetOf("target"), "source", "target")

\* an evaluation returned although the target bundle alone has a smaller
\* target error than the adaptation combination
C7_Witness ==
    /\ ReturnedFrom("evaluation")
    /\ last.call.task = "r"
    /\ last.call.target_data = None
    /\ mse[<<"source", "target">>] > mse[<<"target", "target">>]

\* C8: predict, predict_proba, evaluation, score and get_params leave the
\* datasets, the two bundles and the fitted flag as they are: only steps of
\* fit change them.
NonFitStep ==
    \/ pc = "eval"
    \/ pc' = "eval"
    \/ (pc = "idle" /\ pc' = "idle" /\ last'.call.op # "fit")

C8_OnlyFitMutates ==
    [][ NonFitStep => UNCHANGED <<source_train, target_train, source_test, target_test,
                                  source_estimator, target_estimator, is_fitted>> ]_vars

\* an evaluation on caller-supplied data returned on a fitted orchestrator
C8_Witness ==
    /\ ReturnedFrom("evaluation")
    /\ is_fitted
    /\ last.call.source_data # None
    /\ source_test = TestData("source_test")

\* C9: predict and evaluation on an orchestrator whose fitted flag is not
\* raised (no fit call has completed) fail instead of returning a result.
C9_UnfittedCallsFail ==
    ((Ended("predict") \/ Ended("evaluation")) /\ ~is_fitted) => last.outcome = "raised"

\* C10: evaluation returns the complete record set (five records, each with
\* its label and its metrics) or raises and returns nothing; while it runs
\* nothing has been returned.
C10_EvaluationAllOrNothing ==
    /\ (pc = "eval") => (last = None)
    /\ Ended("evaluation") =>
         /\ (last.outcome = "returned") =>
              /\ Len(last.value) = 5
              /\ \A i \in 1..5 :
                   /\ DOMAIN last.value[i] = {"task", "predict_error"}
                   /\ DOMAIN last.value[i].predict_error \in {{"l2"}, {"hard_acc", "auc"}}
         /\ (last.outcome = "raised") => ("value" \notin DOMAIN last)

\* an evaluation raised in its second step, after one record had been appended
C10_Witness ==
    /\ RaisedFrom("evaluation")
    /\ last.stage = 2
    /\ last.error = "KeyError"

\* ================================================== score on concrete arrays
\* KernelMethod.score reads nothing of the orchestrator; here it is computed
\* on arrays with a shape and values, as numpy and scikit-learn compute it.
MaxDim == 3         \* the largest extent of one array dimension
MaxLen == 3         \* the largest number of samples of a scored array
MaxVal == 3         \* regression targets range over 1..MaxVal

\* an ndarray: its shape and its values in row-major order
Array(shape, data) == [shape |-> shape, data |-> data]
ndim(a) == Len(a.shape)

RECURSIVE Prod(_)
Prod(s) == IF s = << >> THEN 1 ELSE Head(s) * Prod(Tail(s))

RECURSIVE SumSeq(_)
SumSeq(s) == IF s = << >> THEN 0 ELSE Head(s) + SumSeq(Tail(s))

Abs(x) == IF x < 0 THEN -x ELSE x
Frac(num, den) == [num |-> num, den |-> den]

\* ndarray.squeeze(): every dimension of extent one is dropped
squeeze(a) == Array(SelectSeq(a.shape, LAMBDA d : d # 1), a.data)

\* Python's order on tuples, as in test_y.shape > predict_y.shape
TupleLess(s, t) ==
    \E i \in 1..(Min(Len(s), Len(t)) + 1) :
        /\ \A j \in 1..(i - 1) : s[j] = t[j]
        /\ \/ i > Len(s) /\ i <= Len(t)
           \/ i <= Len(s) /\ i <= Len(t) /\ s[i] < t[i]

\* shape[:-1]
Leading(shape) == SubSeq(shape, 1, Len(shape) - 1)

\* a reshape that repeats or drops values to fill the new shape (numpy.resize)
reshape_resizing(a, shape) ==
    Ok(Array(shape, [i \in 1..Prod(shape) |-> a.data[((i - 1) % Len(a.data)) + 1]]))

\* ndarray.reshape(shape): the values are kept, the sizes must agree
reshape(a, shape) ==
    IF Prod(shape) = Len(a.data) THEN Ok(Array(shape, a.data)) ELSE Err("ValueError")

\* sklearn.metrics.mean_squared_error(y_true, y_pred): a 0-d input is not a
\* collection of samples, an input of more than two dimensions is rejected;
\* otherwise the mean of the squared differences (uniform average of outputs)
mean_squared_error(y_true, y_pred) ==
    IF ndim(y_true) = 0 \/ ndim(y_pred) = 0 THEN Err("TypeError")
    ELSE IF Head(y_true.shape) # Head(y_pred.shape) THEN Err("ValueError")
    ELSE IF ndim(y_true) > 2 \/ ndim(y_pred) > 2 THEN Err("ValueError")
    ELSE IF y_true.shape # y_pred.shape THEN Err("ValueError")
    ELSE Ok(Frac(SumSeq([i \in DOMAIN y_true.data |->
                            (y_true.data[i] - y_pred.data[i]) * (y_true.data[i] - y_pred.data[i])]),
                 Len(y_true.data)))

\* score, lines 217-233: the regression branch on the squeezed arrays
score_r(test_y, predict_y) ==
    IF TupleLess(predict_y.shape, test_y.shape)
    THEN IF ~(ndim(test_y) = ndim(predict_y) + 1) /\ ~(Leading(test_y.shape) = predict_y.shape)
         THEN Err("AssertionError")
         ELSE LET r == reshape(predict_y, test_y.shape)
              IN  IF r.ok THEN mean_squared_error(test_y, r.value) ELSE r
    ELSE IF TupleLess(test_y.shape, predict_y.shape)
    THEN IF ~(ndim(test_y) + 1 = ndim(predict_y)) /\ ~(test_y.shape = Leading(predict_y.shape))
         THEN Err("AssertionError")
         ELSE LET r == reshape(test_y, predict_y.shape)
              IN  IF r.ok THEN mean_squared_error(r.value, predict_y) ELSE r
    ELSE mean_squared_error(test_y, predict_y)

\* row i of a two-dimensional array
RowOf(a, i) == SubSeq(a.data, (i - 1) * a.shape[2] + 1, i * a.shape[2])

\* argmax(abs(row)): the first position of the largest magnitude, counted from 0
ArgmaxAbs(row) ==
    (CHOOSE j \in DOMAIN row :
        /\ \A m \in DOMAIN row : Abs(row[m]) <= Abs(row[j])
        /\ \A m \in 1..(j - 1) : Abs(row[m]) < Abs(row[j])) - 1

\* the last column of sklearn.preprocessing.normalize(abs(a), axis=1): the
\* entry num / sqrt(sq); a row of zeros is left as it is
NormalizedLast(row) ==
    LET sq == SumSeq([m \in DOMAIN row |-> row[m] * row[m]])
    IN  [num |-> Abs(row[Len(row)]), sq |-> IF sq = 0 THEN 1 ELSE sq]

\* sklearn.metrics.accuracy_score: the fraction of equal labels
accuracy_score(y_true, y_pred) ==
    IF Len(y_true) # Len(y_pred) THEN Err("ValueError")
    ELSE Ok(Frac(Cardinality({i \in DOMAIN y_true : y_true[i] = y_pred[i]}), Len(y_true)))

\* what roc_auc_score does when y_true holds one class only: releases of
\* scikit-learn differ (an exception, or nan with a warning)
OneClassOutcomes == {"ValueError", "nan"}

\* sklearn.metrics.roc_auc_score(y_true, y_score), the value kept symbolic
roc_auc_score(y_true, y_score, oneclass) ==
    IF Len(y_true) # Len(y_score) THEN Err("ValueError")
    ELSE IF Cardinality(Range(y_true)) > 2 THEN Err("ValueError")
    ELSE IF Cardinality(Range(y_true)) = 1
    THEN (IF oneclass = "nan" THEN Ok("nan") ELSE Err("ValueError"))
    ELSE Ok([metric |-> "auc", y_true |-> y_true, y_score |-> y_score])

\* score, lines 273-279: hard_acc first, then auc
score_evals(testy_label, predicty_label, predicty_prob, oneclass) ==
    LET acc == accuracy_score(testy_label, predicty_label)
        auc == roc_auc_score(testy_label, predicty_prob, oneclass)
    IN  IF ~acc.ok THEN acc
        ELSE IF ~auc.ok THEN auc
        ELSE Ok([hard_acc |-> acc.value, auc |-> auc.value])

\* score, lines 235-279: the classification branch on the squeezed arrays (of
\* at most two dimensions); thres is a fraction
score_c(test_y, predict_y, thres, oneclass) ==
    IF ndim(predict_y) >= 2
    THEN IF ndim(test_y) < 2 THEN Err("ValueError")
         ELSE score_evals([i \in 1..test_y.shape[1] |-> ArgmaxAbs(RowOf(test_y, i))],
                          [i \in 1..predict_y.shape[1] |-> ArgmaxAbs(RowOf(predict_y, i))],
                          [i \in 1..predict_y.shape[1] |-> NormalizedLast(RowOf(predict_y, i))],
                          oneclass)
    ELSE IF ndim(predict_y) = 0 THEN Err("IndexError")
    ELSE score_evals([i \in DOMAIN test_y.data |->
                         IF test_y.data[i] = -1 THEN 0 ELSE test_y.data[i]],
                     [i \in DOMAIN predict_y.data |->
                         IF predict_y.data[i] * thres.den >= thres.num THEN 1 ELSE 0],
                     predict_y.data, oneclass)

\* KernelMethod.score(predict_y, test_y, task, thres=thres) on arrays
score_arrays(predict_y, test_y, task, thres, oneclass) ==
    IF task = "r" THEN
        LET r == score_r(squeeze(test_y), squeeze(predict_y))
        IN  IF r.ok THEN Ok([l2 |-> r.value]) ELSE r
    ELSE IF task = "c" THEN score_c(squeeze(test_y), squeeze(predict_y), thres, oneclass)
    ELSE Err("UnboundLocalError")

\* ------------------------------------------------ the arrays a caller scores
Extents == 1..MaxDim
Shapes == {<<a>> : a \in Extents} \cup {<<a, b>> : a, b \in Extents}
              \cup {<<a, b, c>> : a, b, c \in Extents}
Zeros(shape) == Array(shape, [i \in 1..Prod(shape) |-> 0])

\* regression targets, and predictions off by at most one in every entry
Offsets(n) == [1..n -> {-1, 0, 1}]

RECURSIVE Flatten(_)
Flatten(rows) == IF rows = << >> THEN << >> ELSE Head(rows) \o Flatten(Tail(rows))

\* one-hot labels of two classes, and predictions with their mass on one
\* column or on both
OneHot == {<<1, 0>>, <<0, 1>>}
Mass == {<<1, 0>>, <<0, 1>>, <<1, 1>>}

\* the threshold of score's signature, thres=0.5
DefaultThres == Frac(1, 2)

\* the thres argument of a call: the default unless the caller passes one
ThresOf(call) == IF "thres" \in DOMAIN call THEN call.thres ELSE DefaultThres

\* a call of score on arrays: the caller's arrays are in args
ScoreArrays(oneclass) ==
    /\ pc = "score"
    /\ LET res == score_arrays(args.predict_y, args.test_y, args.task, ThresOf(args), oneclass)
       IN last' = IF res.ok THEN Returned(args, res.value) ELSE Raised(args, res.error, "call")
    /\ pc' = "idle"
    /\ args' = None
    /\ UNCHANGED <<self, mse, samples, search, eval_list, reads, fit_done>>

NextScore == \E oneclass \in OneClassOutcomes : ScoreArrays(oneclass)

\* the call score(predict_y, test_y, task)
ScoreCall(predict_y, test_y, task) ==
    [op |-> "score", predict_y |-> predict_y, test_y |-> test_y, task |-> task]

\* the call score(predict_y, test_y, task, thres=thres)
ScoreCallThres(predict_y, test_y, task, thres) ==
    [op |-> "score", predict_y |-> predict_y, test_y |-> test_y, task |-> task,
     thres |-> thres]

\* a constructed orchestrator whose score is about to be called on arrays:
\* arrays of zeros of every pair of shapes (regression); targets and
\* predictions off by at most one per entry (regression, unsupported flag);
\* one-hot labels and predictions of two columns (classification); signed
\* labels and scores below, at and above the threshold 1 (classification)
InitScore ==
    /\ Construct({MaxRows}, {MaxClasses}, {[c \in Combos |-> 0]})
    /\ ~split /\ lam_set = SuppliedLamSet /\ "Y" \in target_train.keys
    /\ pc = "score"
    /\ \/ \E p \in Shapes, t \in Shapes : args = ScoreCall(Zeros(p), Zeros(t), "r")
       \/ \E n \in 1..MaxLen : \E t \in [1..n -> 1..MaxVal], d \in Offsets(n), task \in {"r", "x"} :
            args = ScoreCall(Array(<<n>>, [i \in 1..n |-> t[i] + d[i]]), Array(<<n>>, t), task)
       \/ \E n \in 1..MaxLen : \E p \in [1..n -> Mass], t \in [1..n -> OneHot] :
            args = ScoreCall(Array(<<n, 2>>, Flatten(p)), Array(<<n, 2>>, Flatten(t)), "c")
       \/ \E n \in 1..MaxLen : \E p \in [1..n -> 0..2], t \in [1..n -> {-1, 1}] :
            args = ScoreCallThres(Array(<<n>>, p), Array(<<n>>, t), "c", Frac(1, 1))

SpecScore == InitScore /\ [][NextScore]_vars

\* ------------------------------------------------------------ C11 .. C13
\* the squeezed shapes of the arrays of the last score call
TestShape == squeeze(last.call.test_y).shape
PredictShape == squeeze(last.call.predict_y).shape
\* long is short with a single extra trailing dimension
ExtraTrailing(long, short) == Len(long) = Len(short) + 1 /\ Leading(long) = short
Unresolvable(s, t) == s # t /\ ~ExtraTrailing(s, t) /\ ~ExtraTrailing(t, s)

\* C11: in regression scoring, when the squeezed shapes of test_y and predict_y
\* differ and neither is the other with a single extra trailing dimension, the
\* mismatch is fatal: score raises a shape error (the AssertionError carrying
\* err_message, or the ValueError of the reshape or of the metric) and returns
\* no value computed after reshaping one array into the other's shape.
C11_MismatchIsFatal ==
    (Ended("score") /\ last.call.task = "r" /\ Unresolvable(TestShape, PredictShape)) =>
        (last.outcome = "raised" /\ last.error \in {"AssertionError", "ValueError"})

\* a mismatch that passes the guard of lines 219-221 (the numbers of dimensions
\* differ by one, the leading dimensions differ) has been scored
C11_Witness ==
    /\ Ended("score") /\ last.call.task = "r"
    /\ Unresolvable(TestShape, PredictShape)
    /\ Len(TestShape) = Len(PredictShape) + 1
    /\ last.outcome = "raised"

\* the mean of the squared differences of two arrays of one shape
SquaredDiffs(a, b) == [i \in DOMAIN a.data |-> (a.data[i] - b.data[i]) * (a.data[i] - b.data[i])]

\* C12: for task "r" and arrays of the same shape, score returns {"l2": m} with
\* m the mean of the squared differences: m is 0 when the arrays are equal, and
\* 1 for test_y = [1, 2, 3] and predict_y = [2, 3, 4].
C12_MeanSquaredError ==
    (Ended("score") /\ last.call.task = "r"
        /\ last.call.test_y.shape = last.call.predict_y.shape) =>
        /\ last.outcome = "returned"
        /\ last.value.l2 = Frac(SumSeq(SquaredDiffs(last.call.test_y, last.call.predict_y)),
                                Len(last.call.test_y.data))
        /\ (last.call.test_y = last.call.predict_y => last.value.l2.num = 0)
        /\ (last.call.test_y.data = <<1, 2, 3>> /\ last.call.predict_y.data = <<2, 3, 4>>
                => last.value.l2.num = last.value.l2.den)

\* every row of the array puts its largest magnitude on column 0
AllOnColumn0(a) ==
    /\ Len(a.shape) = 2 /\ a.shape[2] = 2
    /\ \A i \in 1..a.shape[1] : RowOf(a, i) = <<1, 0>>

\* C13: for task "c", with test_y one-hot over two columns and every sample of
\* class 0, and predict_y of shape (n, 2) with all its mass on column 0, score
\* returns a result whose hard_acc is 1.
C13_AllClassZero ==
    (Ended("score") /\ last.call.task = "c"
        /\ AllOnColumn0(last.call.test_y) /\ AllOnColumn0(last.call.predict_y)) =>
        /\ last.outcome = "returned"
        /\ last.value.hard_acc.num = last.value.hard_acc.den

\* ------------------------------------------------------------------- C14
\* the one-hot width of the source training Y
SourceWidth ==
    IF IsDict(source_train) THEN source_train.ycols ELSE source_train.parts[1].ycols

\* C14: a fit(task="c") whose stage fits succeed returns normally and has
\* recorded classes_ = [0, ..., k-1], k the one-hot width of the source
\* training Y, with split off and with split on.
C14_ClassesRecorded ==
    (Ended("fit") /\ last.call.task = "c"
        /\ (last.outcome = "raised" => last.stage = "mark")) =>
        /\ last.outcome = "returned"
        /\ classes_ = [i \in 1..SourceWidth |-> i - 1]

\* ============================================================== set_params
\* the dicts a caller may hand to set_params: what get_params of an
\* orchestrator built with other options returns
Scales == {1, 2}
ParamDicts ==
    [lam_set : {DefaultLamSet, SuppliedLamSet}, method_set : {DefaultMethodSet},
     kernel_dict : {SuppliedKernelDict}, split : BOOLEAN, scale : Scales]

\* a set_params that leaves the scale as it was
SetParams_keeps_scale(params) ==
    /\ pc = "idle"
    /\ lam_set' = params.lam_set
    /\ method_set' = params.method_set
    /\ kernel_dict' = params.kernel_dict
    /\ split' = params.split
    /\ last' = Returned([op |-> "set_params", params |-> params], None)
    /\ UNCHANGED <<source_train, target_train, source_test, target_test, sc, source_estimator,
                   target_estimator, is_fitted, classes_, h_domain, cme_domain, mse, samples, search, pc, args,
                   eval_list, reads, fit_done>>

\* KernelMethod.set_params(params)
SetParams(params) ==
    /\ pc = "idle"
    /\ lam_set' = params.lam_set
    /\ method_set' = params.method_set
    /\ kernel_dict' = params.kernel_dict
    /\ split' = params.split
    /\ sc' = params.scale
    /\ last' = Returned([op |-> "set_params", params |-> params], None)
    /\ UNCHANGED <<source_train, target_train, source_test, target_test, source_estimator,
                   target_estimator, is_fitted, classes_, h_domain, cme_domain, mse, samples, search, pc, args,
                   eval_list, reads, fit_done>>

NextParams ==
    \/ Next
    \/ \E params \in ParamDicts : SetParams(params)

\* the orchestrator with its hyperparameters replaced between calls
InitParams == Construct({MaxRows}, {MaxClasses}, {[c \in Combos |-> 0]}) /\ NoCall
SpecParams == InitParams /\ [][NextParams]_vars

\* ------------------------------------------------------------------- C15
\* C15: after set_params(p), with p the dict get_params of an orchestrator
\* returned, get_params of this orchestrator returns p: lam_set, method_set,
\* kernel_dict, split and scale are those of the other orchestrator, which are
\* all the hyperparameters a fit reads; and set_params(get_params()) on one
\* orchestrator changes none of its fields.
C15_ParamsRoundTrip ==
    /\ [](Ended("set_params") => get_params = last.call.params)
    /\ [][(pc = "idle" /\ last' # None /\ last'.call.op = "set_params"
              /\ last'.call.params = get_params) => UNCHANGED self]_vars

\* set_params has replaced every one of the five hyperparameters of a fitted
\* orchestrator
C15_Witness ==
    /\ Ended("set_params")
    /\ is_fitted
    /\ split /\ sc # 1 /\ lam_set = DefaultLamSet
    /\ fit_done # None /\ ~IsList(source_train)

\* ============================================================= construction
\* The constructor as a call: before it no object exists (pc = "new", every
\* field None, the caller's arguments in args); an exception leaves no object
\* (pc = "none").
Without(dict, key) == [k \in (DOMAIN dict) \ {key} |-> dict[k]]

\* the lam_set and kernel_dict arguments a caller may pass: nothing, a complete
\* dict, or a dict that lacks one entry a fit reads
LamSetArgs ==
    {None, SuppliedLamSet} \cup {Without(SuppliedLamSet, k) : k \in {"cme", "h0", "lam_min", "lam_max"}}
KernelDictArgs ==
    {None, SuppliedKernelDict}
        \cup {Without(SuppliedKernelDict, k) : k \in {"cme_w_xc", "cme_wc_x", "h0"}}

CtorArgs ==
    [op : {"__init__"},
     source_train : {Dataset("source", TrainBlocks, Rows(MaxRows), MaxClasses)},
     target_train : {Dataset("target", TrainBlocks, Rows(MaxRows - 1), MaxClasses)},
     split : BOOLEAN, scale : {1}, lam_set : LamSetArgs, method_set : {None},
     kernel_dict : KernelDictArgs]

\* a constructor that installs a default kernel_dict when none is given
__init__defaulting ==
    /\ pc = "new"
    /\ source_train' = args.source_train
    /\ target_train' = args.target_train
    /\ source_test' = TestData("source_test")
    /\ target_test' = TestData("target_test")
    /\ sc' = args.scale
    /\ split' = args.split
    /\ is_fitted' = FALSE
    /\ lam_set' = IF args.lam_set = None THEN DefaultLamSet ELSE args.lam_set
    /\ method_set' = IF args.method_set = None THEN DefaultMethodSet ELSE args.method_set
    /\ kernel_dict' = IF args.kernel_dict = None THEN SuppliedKernelDict ELSE args.kernel_dict
    /\ source_estimator' = None
    /\ target_estimator' = None
    /\ cme_domain' = "source"
    /\ h_domain' = "source"
    /\ pc' = "idle"
    /\ args' = None
    /\ last' = Returned(args, None)
    /\ UNCHANGED <<classes_, mse, samples, search, eval_list, reads, fit_done>>

\* KernelMethod.__init__ (lines 91-133) and FullAdapt.__init__ (lines 50-51):
\* with kernel_dict=None line 114 assigns into None, which raises TypeError
__init__ ==
    /\ pc = "new"
    /\ IF args.kernel_dict = None
       THEN /\ pc' = "none"
            /\ last' = Raised(args, "TypeError", "call")
            /\ UNCHANGED self
       ELSE /\ source_train' = args.source_train
            /\ target_train' = args.target_train
            /\ source_test' = TestData("source_test")
            /\ target_test' = TestData("target_test")
            /\ sc' = args.scale
            /\ split' = args.split
            /\ is_fitted' = FALSE
            /\ lam_set' = IF args.lam_set = None THEN DefaultLamSet ELSE args.lam_set
            /\ method_set' = IF args.method_set = None THEN DefaultMethodSet ELSE args.method_set
            /\ kernel_dict' = args.kernel_dict
            /\ source_estimator' = None
            /\ target_estimator' = None
            /\ cme_domain' = "source"
            /\ h_domain' = "source"
            /\ pc' = "idle"
            /\ last' = Returned(args, None)
            /\ UNCHANGED classes_
    /\ args' = None
    /\ UNCHANGED <<mse, samples, search, eval_list, reads, fit_done>>

NextCtor ==
    \/ __init__
    \/ Next

\* a caller about to construct an orchestrator
InitCtor ==
    /\ pc = "new"
    /\ args \in CtorArgs
    /\ source_train = None /\ target_train = None /\ source_test = None /\ target_test = None
    /\ split = None /\ sc = None /\ lam_set = None /\ method_set = None /\ kernel_dict = None
    /\ source_estimator = None /\ target_estimator = None /\ is_fitted = None
    /\ classes_ = None /\ h_domain = None /\ cme_domain = None
    /\ mse = [c \in Combos |-> 0]
    /\ NoSearch
    /\ eval_list = << >> /\ reads = {} /\ fit_done = None /\ last = None

SpecCtor == InitCtor /\ [][NextCtor]_vars

\* ------------------------------------------------------------- C16 .. C17
\* an orchestrator object exists
Constructed == pc \notin {"new", "none"}

\* C16: constructing with kernel_dict=None fails at construction with an error
\* of the configuration (the TypeError of line 114): no orchestrator object is
\* produced, every orchestrator that exists holds a kernel_dict.
C16_NoKernelDictFails ==
    /\ (last # None /\ last.call.op = "__init__" /\ last.call.kernel_dict = None) =>
           (last.outcome = "raised" /\ ~Constructed)
    /\ Constructed => kernel_dict # None

\* a constructor call without a kernel_dict has ended
C16_Witness ==
    /\ pc = "none"
    /\ last # None /\ last.call.op = "__init__" /\ last.call.kernel_dict = None
    /\ last.outcome = "raised"

\* C17: a kernel_dict that lacks a stage entry a fit reads (cme_w_xc, cme_wc_x,
\* h0) or a lam_set that lacks a key a fit reads (cme, h0, lam_min, lam_max)
\* fails in the constructor: every orchestrator that exists holds all of these
\* entries, and none of its fits fails on a configuration lookup.
C17_MisconfigurationFailsFast ==
    Constructed =>
        /\ {"cme_w_xc", "cme_wc_x", "h0"} \subseteq DOMAIN kernel_dict
        /\ {"cme", "h0", "lam_min", "lam_max"} \subseteq DOMAIN lam_set

\* ------------------------------------------------------------------- C18
\* C18: an unsupported task flag is rejected: score called with it raises and
\* returns no result, and fit called with it raises before any estimator is
\* fitted (no stage fit has completed) and without setting an estimator bundle.
C18_UnsupportedTaskRejected ==
    /\ (Ended("score") /\ last.call.task \notin {"r", "c"}) => last.outcome = "raised"
    /\ (Ended("fit") /\ last.call.task \notin {"r", "c"}) =>
           /\ last.outcome = "raised"
           /\ last.stage \in {"source", "target"} => last.fitted = << >>

\* ======================================================== bandwidth search
\* The model selection script ms_sa.py: every candidate bandwidth of the grid
\* is evaluated by run_single_loop in a worker process of a Pool, pool.map
\* gathers the results, the script selects the best candidate, refits it on
\* the full source training set and predicts.
MaxParams == 3      \* the grid prams_batch has MaxParams candidates
MaxFold == 2        \* KFold makes MaxFold folds
MaxSourceN == 5     \* a source training environment has MaxSourceN - 1 or MaxSourceN rows

\* the grid, in grid order: candidate i has bandwidth Bandwidth(i)
Grid == 1..MaxParams
Folds == 1..MaxFold
Bandwidth(i) == [length_scale |-> i]
prams_batch == [i \in Grid |-> Bandwidth(i)]

\* the held-out scores acc_err a fold evaluation may give (the source is
\* scored low or high on the fold)
AucValues == {0, 1}

\* the scores of one candidate over the folds: the same score on every fold,
\* or a high score on the first fold only, or on the last fold only
FoldScores ==
    {[f \in Folds |-> v] : v \in AucValues}
        \cup {[f \in Folds |-> IF f = g THEN 1 ELSE 0] : g \in {1, MaxFold}}

\* MultiSouceSimpleAdapt(n_env, bandwidth=params) after fit(data)
MultiSouceSimpleAdapt(params, data) == [bandwidth |-> params, fitted_on |-> data]

\* a KFold whose training indices are all the rows
KFold_overlapping(n, k) ==
    [f \in 1..k |->
        LET start == (f - 1) * (n \div k) + Min(f - 1, n % k)
            size == (n \div k) + (IF f <= n % k THEN 1 ELSE 0)
        IN  [train_idx |-> Rows(n), test_idx |-> start..(start + size - 1)]]

\* lines 92-98, KFold(n_splits=k, shuffle=False).split on n rows: fold f holds
\* out a contiguous block of rows, the first n % k blocks one row longer than
\* the others, and trains on every other row
KFold(n, k) ==
    [f \in 1..k |->
        LET start == (f - 1) * (n \div k) + Min(f - 1, n % k)
            size == (n \div k) + (IF f <= n % k THEN 1 ELSE 0)
            test_idx == start..(start + size - 1)
        IN  [train_idx |-> Rows(n) \ test_idx, test_idx |-> test_idx]]

\* lines 100-105, split_data_cv(sidx, t_list): the rows sidx of every block of
\* every environment of the list
split_data_cv(sidx, t_list) == [list |-> t_list, rows |-> sidx]

\* the fold evaluation of candidate i that raises, MaxFold + 1 if none does
RaisingFold(i) ==
    IF fold_raises # None /\ fold_raises.candidate = i THEN fold_raises.fold ELSE MaxFold + 1

\* lines 98-114: the fits run_single_loop performs for candidate i, one in
\* every iteration of the fold loop up to the one that raises: the object
\* constructed in the iteration, its bandwidth, the rows it is fitted on and
\* the rows held out for its score
FoldFits(i) ==
    [f \in 1..Min(RaisingFold(i), MaxFold) |->
        [object |-> <<"mssa", i, f>>,
         bandwidth |-> prams_batch[i],
         source_train_cv_train |->
             split_data_cv(KFold(source_n, MaxFold)[f].train_idx, "source_train_list_mmd"),
         source_train_cv_test |->
             split_data_cv(KFold(source_n, MaxFold)[f].test_idx, "source_train_list_mmd")]]

\* lines 124-127: the fold whose score first exceeds every score before it
\* and is not exceeded later
BestFold(errs) ==
    CHOOSE f \in DOMAIN errs :
        /\ \A g \in DOMAIN errs : errs[g] <= errs[f]
        /\ \A g \in 1..(f - 1) : errs[g] < errs[f]

\* run_single_loop(params) for the candidate at grid position i: the model of
\* the best fold, the mean of the fold scores, the parameters; an exception
\* raised by the fit or the scoring of a fold (lines 114-120) is not handled
\* and leaves the function
run_single_loop(i) ==
    LET errs == [f \in Folds |-> fold_auc[i][f]]
    IN  IF RaisingFold(i) \in Folds
        THEN Raised([name |-> "run_single_loop", params |-> prams_batch[i]],
                    "ValueError", RaisingFold(i))
        ELSE [best_model_i |->
                  MultiSouceSimpleAdapt(prams_batch[i],
                                        FoldFits(i)[BestFold(errs)].source_train_cv_train),
              mean |-> Frac(SumSeq(errs), Len(errs)),
              b_params |-> [bandwidth |-> prams_batch[i]]]

\* the result of a worker is an exception
IsRaised(r) == "outcome" \in DOMAIN r

\* a < b for fractions of positive denominators
FracLess(a, b) == a.num * b.den < b.num * a.den

\* an argmax that returns the last position of the maximum
argmax_last(err_batch) ==
    CHOOSE i \in DOMAIN err_batch :
        /\ \A j \in DOMAIN err_batch : ~FracLess(err_batch[i], err_batch[j])
        /\ \A j \in (i + 1)..Len(err_batch) : FracLess(err_batch[j], err_batch[i])

\* np.argmax(err_batch): the first position of the maximum
argmax(err_batch) ==
    CHOOSE i \in DOMAIN err_batch :
        /\ \A j \in DOMAIN err_batch : ~FracLess(err_batch[i], err_batch[j])
        /\ \A j \in 1..(i - 1) : FracLess(err_batch[j], err_batch[i])

\* a pool that hands back the results in the order the workers finish
Evaluate_unordered(i) ==
    /\ pc = "map"
    /\ fold_fits[i] = << >>
    /\ \E slot \in Grid :
         /\ results[slot] = None
         /\ \A k \in 1..(slot - 1) : results[k] # None
         /\ results' = [results EXCEPT ![slot] = run_single_loop(i)]
    /\ fold_fits' = [fold_fits EXCEPT ![i] = FoldFits(i)]
    /\ UNCHANGED <<self, mse, samples, pc, args, eval_list, reads, fit_done, last, fold_auc,
                   fold_raises, source_n, idx, best_msa, predictY>>

\* line 147, pool.map(run_single_loop, prams_batch): a worker process finishes
\* the evaluation of candidate i; the workers share no memory, map stores the
\* result at the position of its argument
Evaluate(i) ==
    /\ pc = "map"
    /\ results[i] = None
    /\ results' = [results EXCEPT ![i] = run_single_loop(i)]
    /\ fold_fits' = [fold_fits EXCEPT ![i] = FoldFits(i)]
    /\ UNCHANGED <<self, mse, samples, pc, args, eval_list, reads, fit_done, last, fold_auc,
                   fold_raises, source_n, idx, best_msa, predictY>>

\* line 147: once every worker is done, map raises in the script the
\* exception a worker raised; the script handles no exception and ends
MapRaises ==
    /\ pc = "map"
    /\ \A i \in Grid : results[i] # None
    /\ \E i \in Grid : IsRaised(results[i])
    /\ pc' = "aborted"
    /\ UNCHANGED <<self, mse, samples, args, eval_list, reads, fit_done, last, search>>

\* lines 147-162: map returns when every candidate is evaluated; selection
Select ==
    /\ pc = "map"
    /\ \A i \in Grid : results[i] # None /\ ~IsRaised(results[i])
    /\ LET model_batch == [i \in Grid |-> results[i].best_model_i]
           err_batch == [i \in Grid |-> results[i].mean]
       IN /\ idx' = argmax(err_batch)
          /\ best_msa' = model_batch[argmax(err_batch)]
    /\ pc' = "selected"
    /\ UNCHANGED <<self, mse, samples, args, eval_list, reads, fit_done, last, fold_auc, fold_raises,
                   source_n, fold_fits, results, predictY>>

\* line 165: best_msa.fit(source_train_list_mmd)
Refit ==
    /\ pc = "selected"
    /\ best_msa' = MultiSouceSimpleAdapt(best_msa.bandwidth, "source_train_list_mmd")
    /\ pc' = "refitted"
    /\ UNCHANGED <<self, mse, samples, args, eval_list, reads, fit_done, last, fold_auc, fold_raises,
                   source_n, fold_fits, results, idx, predictY>>

\* line 167: predictY = best_msa.predict(target test X)
PredictBest ==
    /\ pc = "refitted"
    /\ predictY' = [model |-> best_msa, X |-> "target_test_list_mmd"]
    /\ pc' = "predicted"
    /\ UNCHANGED <<self, mse, samples, args, eval_list, reads, fit_done, last, fold_auc, fold_raises,
                   source_n, fold_fits, results, idx, best_msa>>

NextSearch ==
    \/ \E i \in Grid : Evaluate(i)
    \/ MapRaises
    \/ Select
    \/ Refit
    \/ PredictBest

\* the script at pool.map, over every table of held-out scores, with at most
\* one fold evaluation that raises and source environments of equal size
InitSearch ==
    /\ pc = "map"
    /\ fold_auc \in [Grid -> FoldScores]
    /\ fold_raises \in {None} \cup [candidate : Grid, fold : Folds]
    /\ source_n \in {MaxSourceN - 1, MaxSourceN}
    /\ fold_fits = [i \in Grid |-> << >>]
    /\ results = [i \in Grid |-> None]
    /\ idx = None /\ best_msa = None /\ predictY = None
    /\ source_train = None /\ target_train = None /\ source_test = None /\ target_test = None
    /\ split = None /\ sc = None /\ lam_set = None /\ method_set = None /\ kernel_dict = None
    /\ source_estimator = None /\ target_estimator = None /\ is_fitted = None
    /\ classes_ = None /\ h_domain = None /\ cme_domain = None
    /\ mse = [c \in Combos |-> 0]
    /\ args = None /\ eval_list = << >> /\ reads = {} /\ fit_done = None /\ last = None
    /\ samples = None

SpecSearch == InitSearch /\ [][NextSearch]_vars

\* ------------------------------------------------------------- C19 .. C20
\* the mean held-out score of candidate i over the folds
MeanScore(i) == Frac(SumSeq([f \in Folds |-> fold_auc[i][f]]), MaxFold)

\* C19: the search selects the candidate whose mean held-out score over the
\* folds is maximal, the first such candidate in grid order on ties; the model
\* that predicts has been refit on the full source training set with the
\* bandwidth of that candidate.
C19_SelectsBestAndRefits ==
    /\ pc \in {"selected", "refitted", "predicted"} =>
           /\ \A j \in Grid : ~FracLess(MeanScore(idx), MeanScore(j))
           /\ \A j \in 1..(idx - 1) : FracLess(MeanScore(j), MeanScore(idx))
           /\ best_msa.bandwidth = prams_batch[idx]
    /\ pc = "predicted" =>
           predictY.model = MultiSouceSimpleAdapt(prams_batch[idx], "source_train_list_mmd")

\* the selected model has predicted after a search with a tie for the best
\* mean score between the last candidate and an earlier one
C19_Witness ==
    /\ pc = "predicted"
    /\ idx < MaxParams
    /\ MeanScore(idx) = MeanScore(MaxParams)
    /\ \E j \in Grid : FracLess(MeanScore(j), MeanScore(idx))

\* the results of evaluating the candidates one after the other in grid order
RECURSIVE SequentialResults(_)
SequentialResults(n) ==
    IF n = 0 THEN << >> ELSE Append(SequentialResults(n - 1), run_single_loop(n))

\* C20: whatever the order in which the workers finish, every result pool.map
\* holds for a candidate is the result of evaluating that candidate in a
\* sequential pass over the grid, and the candidate selected is the one the
\* sequential pass selects.
C20_OrderIndependent ==
    /\ pc = "map" =>
           \A i \in Grid : results[i] # None => results[i] = SequentialResults(MaxParams)[i]
    /\ pc \in {"selected", "refitted", "predicted"} =>
           /\ results = SequentialResults(MaxParams)
           /\ idx = argmax([i \in Grid |-> SequentialResults(MaxParams)[i].mean])

\* the last candidate of the grid has finished before the first, whose score
\* differs
C20_Witness ==
    /\ pc = "map"
    /\ results[MaxParams] # None
    /\ results[1] = None
    /\ MeanScore(1) # MeanScore(MaxParams)

\* ------------------------------------------------------------- C21, C30
\* C21: a fit or scoring failure of one candidate is caught inside the search:
\* no worker hands an exception to pool.map, and the script never ends on the
\* exception of a candidate.
C21_FailingCandidateCaught ==
    /\ pc # "aborted"
    /\ \A i \in Grid : results[i] # None => ~IsRaised(results[i])

\* candidate i has been evaluated and its evaluation returned
Evaluated(i) == results[i] # None /\ ~IsRaised(results[i])

\* the folds of candidate i's fits that hold row r out, and that train on it
HeldOutIn(i, r) == {f \in DOMAIN fold_fits[i] : r \in fold_fits[i][f].source_train_cv_test.rows}
TrainedIn(i, r) == {f \in DOMAIN fold_fits[i] : r \in fold_fits[i][f].source_train_cv_train.rows}

\* C30: the evaluation of a candidate performs at most one fit per fold, and
\* exactly MaxFold fits when it returns; every fit is on an object no other
\* fit uses, with the candidate's bandwidth; the rows a fold trains on and the
\* rows it holds out are disjoint; over the folds of an evaluation that
\* returned, every row of the (equally sized) environments is held out in
\* exactly one fold and trained on in the MaxFold - 1 others.
C30_OneFitPerFold ==
    \A i \in Grid :
        /\ Len(fold_fits[i]) <= MaxFold
        /\ \A f \in DOMAIN fold_fits[i] :
               /\ fold_fits[i][f].bandwidth = prams_batch[i]
               /\ fold_fits[i][f].source_train_cv_train.rows
                      \cap fold_fits[i][f].source_train_cv_test.rows = {}
               /\ fold_fits[i][f].source_train_cv_train.rows
                      \cup fold_fits[i][f].source_train_cv_test.rows = Rows(source_n)
               /\ \A j \in Grid : \A g \in DOMAIN fold_fits[j] :
                      <<j, g>> # <<i, f>> => fold_fits[j][g].object # fold_fits[i][f].object
        /\ Evaluated(i) =>
               /\ Len(fold_fits[i]) = MaxFold
               /\ \A r \in Rows(source_n) :
                      /\ Cardinality(HeldOutIn(i, r)) = 1
                      /\ Cardinality(TrainedIn(i, r)) = MaxFold - 1

\* every candidate has been evaluated on environments whose rows the folds
\* cannot share evenly
C30_Witness ==
    /\ \A i \in Grid : Evaluated(i)
    /\ source_n % MaxFold # 0

\* ========================================================= data generation
\* data_lsa.py: the simulators draw u, w, x, c, y of a sample dictionary; some
\* draws use a jax key derived from the seed argument, the others the
\* process-global generator of numpy (np.random), which no function on the
\* path from generate_data seeds.
MaxSamples == 1     \* a call generates 1..MaxSamples rows

Seeds == {0, 1}
SampleSizes == 1..MaxSamples

\* the arrays of n entries np.random.binomial(1, p, size=n) may return: the
\* global generator is in a state the call neither sets nor knows
np_random_binomial(n) == [1..n -> {0, 1}]

\* jax.random.split(jax.random.PRNGKey(seed), num)[j]
jax_random_split(seed, j) == [PRNGKey |-> seed, split |-> j]
\* jax.random.bernoulli / multivariate_normal: a function of the key and the
\* distribution's parameters
jax_random_bernoulli(key, p, n) == [key |-> key, p |-> p, shape |-> n]
jax_random_multivariate_normal(key, mean) == [key |-> key, mean |-> mean]

\* lines 76-161, Simulator.get_samples(seed=seed) for num_samples = n, where
\* the two np.random.binomial calls return c and y
Simulator_get_samples(seed, n, c, y) ==
    LET u == jax_random_bernoulli(jax_random_split(seed, 1), "p_u[1]", n)
    IN  [u |-> u,
         w |-> jax_random_multivariate_normal(jax_random_split(seed, 2), u),
         x |-> jax_random_multivariate_normal(jax_random_split(seed, 3), u),
         c |-> c,
         y |-> y]

\* lines 279-362, MultiWSimulator.get_samples(seed=seed) for num_samples = n,
\* where the three np.random.binomial calls return u, c and y
MultiWSimulator_get_samples(seed, n, u, c, y) ==
    [u |-> u,
     w |-> jax_random_multivariate_normal(jax_random_split(seed, 1), u),
     x |-> jax_random_multivariate_normal(jax_random_split(seed, 2), u),
     c |-> c,
     y |-> y]

\* lines 523-533, process_data: adds encodings computed from the dictionary
process_data(data_dict) == [data_dict EXCEPT !.w = [w_1 |-> data_dict.w, binary |-> "w_1 > 0"]]

\* a call of the generators ended
Sampled(call, value) ==
    /\ Len(samples) < 2
    /\ samples' = Append(samples, [call |-> call, value |-> value])
    /\ UNCHANGED <<self, mse, search, pc, args, eval_list, reads, fit_done, last>>

\* lines 536-548, generate_data(p_u, seed, num_samples, {"train": 1.0}): the
\* partition of position i = 0 is sampled with seed + 15 * i
generate_data(seed, num_samples) ==
    /\ pc = "data"
    /\ \E u, c, y \in np_random_binomial(num_samples) :
         Sampled([name |-> "generate_data", seed |-> seed, num_samples |-> num_samples],
                 [train |-> process_data(MultiWSimulator_get_samples(seed + 15 * 0, num_samples,
                                                                     u, c, y))])

\* Simulator(param_dict).get_samples(seed=seed) with num_samples rows
get_samples(seed, num_samples) ==
    /\ pc = "data"
    /\ \E c, y \in np_random_binomial(num_samples) :
         Sampled([name |-> "get_samples", seed |-> seed, num_samples |-> num_samples],
                 Simulator_get_samples(seed, num_samples, c, y))

NextData ==
    \E seed \in Seeds, num_samples \in SampleSizes :
        \/ generate_data(seed, num_samples)
        \/ get_samples(seed, num_samples)

\* a process that is about to generate data
InitData ==
    /\ pc = "data"
    /\ samples = << >>
    /\ fold_auc = None /\ results = None /\ idx = None /\ best_msa = None /\ predictY = None
    /\ fold_raises = None /\ source_n = None /\ fold_fits = None
    /\ source_train = None /\ target_train = None /\ source_test = None /\ target_test = None
    /\ split = None /\ sc = None /\ lam_set = None /\ method_set = None /\ kernel_dict = None
    /\ source_estimator = None /\ target_estimator = None /\ is_fitted = None
    /\ classes_ = None /\ h_domain = None /\ cme_domain = None
    /\ mse = [c \in Combos |-> 0]
    /\ args = None /\ eval_list = << >> /\ reads = {} /\ fit_done = None /\ last = None

SpecData == InitData /\ [][NextData]_vars

\* ------------------------------------------------------------------- C22
\* C22: two calls of generate_data, or of Simulator.get_samples, with equal
\* arguments and equal seed return equal sample dictionaries.
C22_SeedDeterminism ==
    pc = "data" =>
        \A a, b \in DOMAIN samples :
            samples[a].call = samples[b].call => samples[a].value = samples[b].value

\* ------------------------------------------------------------------- C23
\* the call scores 1-D scores against 1-D labels in {-1, +1}
SignedBinary(call) ==
    /\ call.task = "c"
    /\ ndim(call.test_y) = 1 /\ ndim(call.predict_y) = 1
    /\ call.test_y.shape = call.predict_y.shape
    /\ \A i \in DOMAIN call.test_y.data : call.test_y.data[i] \in {-1, 1}

\* the rows on which the label of the score (1 iff score >= thres) agrees with
\* the true label (1 for +1, 0 for -1)
Agreeing(call) ==
    {i \in DOMAIN call.test_y.data :
        (call.test_y.data[i] = 1)
            <=> (call.predict_y.data[i] * ThresOf(call).den >= ThresOf(call).num)}

\* C23: for task "c" with 1-D labels in {-1, +1} and 1-D scores, score returns
\* a result whose hard_acc is the fraction of rows on which the true label
\* (-1 mapped to 0) equals the predicted label (1 exactly where the score is
\* >= thres), and the caller's test_y still holds its labels.
C23_SignedBinaryScoring ==
    (Ended("score") /\ SignedBinary(last.call)) =>
        /\ last.outcome = "returned"
        /\ last.value.hard_acc
               = Frac(Cardinality(Agreeing(last.call)), Len(last.call.test_y.data))

\* ------------------------------------------------------------------- C24
\* the training data of a domain, and the rows its bridge is trained on: the
\* third partition after split_data, every row otherwise
TrainOf(d) == IF d = "source" THEN source_train ELSE target_train
BridgeRows(d) == IF IsList(TrainOf(d)) THEN TrainOf(d).parts[3].rows ELSE TrainOf(d).rows

\* C24: in every bundle that holds a bridge, the bridge is trained from the
\* cme_w_xc of the same bundle, and both on data of the bundle's own domain;
\* the covariate blocks of the bridge are the blocks of that embedding's
\* Xlist, and its rows are the rows of the bridge's training partition.
C24_StagesChained ==
    \A d \in Domains :
        (Constructed /\ BundleOf(d) # None /\ "h0" \in DOMAIN BundleOf(d)) =>
            /\ BundleOf(d).h0.cme_w_xc = BundleOf(d).cme_w_xc
            /\ BundleOf(d).cme_w_xc.domain = d
            /\ BundleOf(d).h0.domain = d
            /\ BundleOf(d).h0.covars = Range(BundleOf(d).cme_w_xc.Xlist)
            /\ BundleOf(d).h0.rows = BridgeRows(d)

\* both domains hold a full bundle fitted on split data, the bridge trained
\* on other rows than the embedding it is chained to
C24_Witness ==
    /\ split = TRUE /\ is_fitted = TRUE
    /\ \A d \in Domains :
           /\ BundleOf(d) # None /\ "h0" \in DOMAIN BundleOf(d)
           /\ BundleOf(d).h0.rows # BundleOf(d).cme_w_xc.rows

\* ------------------------------------------------------------------- C25
\* the number of training rows of a split domain
SplitRows(d) ==
    Cardinality(TrainOf(d).parts[1].rows \cup TrainOf(d).parts[2].rows
                    \cup TrainOf(d).parts[3].rows)

\* C25: after split_data, the partitions of each domain end at the split
\* points floor(0.33 m) and floor(0.67 m) of that domain's own row count m,
\* and each of the three partitions of a domain of at least 4 rows is
\* non-empty.
C25_SplitPointsPerDomain ==
    \A d \in Domains :
        (Constructed /\ IsList(source_train) /\ IsList(target_train)) =>
            /\ Cardinality(TrainOf(d).parts[1].rows) = SplitPoints(SplitRows(d))[1]
            /\ Cardinality(TrainOf(d).parts[1].rows \cup TrainOf(d).parts[2].rows)
                   = SplitPoints(SplitRows(d))[2]
            /\ SplitRows(d) >= 4 =>
                   \A k \in 1..3 : TrainOf(d).parts[k].rows # {}

\* ------------------------------------------------------------------- C26
\* C26: after a fit call that raised, the fitted flag is false and the
\* training sets are the ones stored before the call: still the datasets the
\* call started from whenever it got past split_data (which only accepts
\* datasets that are not split yet).
C26_FailingFitNoEffect ==
    RaisedFrom("fit") =>
        /\ is_fitted = FALSE
        /\ last.stage # "split" => (IsDict(source_train) /\ IsDict(target_train))

\* ------------------------------------------------------------------- C27
\* C27: a fit call started with the arguments of the last fit call, which
\* returned, does not raise where it starts (in split_data): no step from a
\* state whose last fit completed ends a fit call of the same arguments with
\* an exception.
C27_FitRepeatable ==
    [][(pc = "idle" /\ fit_done # None /\ last' # None /\ last' # last
            /\ last'.call = fit_done)
          => last'.outcome = "returned"]_vars

\* ------------------------------------------------------------------- C28
\* C28: on an orchestrator built without lam_set and with a complete
\* kernel_dict, the default lam_set holds every key fit reads: a fit call does
\* with a supported task does not end in the source stage on a missing-key
\* failure (the source training blocks and the method_set being complete).
C28_DefaultLamSetComplete ==
    (RaisedFrom("fit") /\ lam_set = DefaultLamSet /\ FullKeys \subseteq DOMAIN kernel_dict
        /\ last.call.task \in {"r", "c"} /\ last.stage = "source") =>
        last.error # "KeyError"

\* ------------------------------------------------------------------- C29
\* the covariate dict predict_proba makes of its argument
CovarOf(X) == IF X.type = "dict" THEN X ELSE PyDict(X.data)

\* C29: a constructed orchestrator has h_domain = cme_domain = "source"; a
\* predict_proba(X) that returns gives the row-normalized output of the source
\* bridge on the source embedding cme_wc_x for the dict X, or {"X": X} for an
\* array X; one that raises, raises what predict does for ("source", "source").
C29_PredictProbaSourceSource ==
    /\ Constructed => (h_domain = "source" /\ cme_domain = "source")
    /\ ReturnedFrom("predict_proba") =>
           last.value = [normalize |-> get_exp_y_x(source_estimator.h0, CovarOf(last.call.X),
                                                   source_estimator.cme_wc_x)]
    /\ RaisedFrom("predict_proba") =>
           /\ ~predict(CovarOf(last.call.X), "source", "source").ok
           /\ last.error = predict(CovarOf(last.call.X), "source", "source").error

\* predict_proba has returned for an array argument on an orchestrator that
\* holds a full target bundle
C29_Witness ==
    /\ ReturnedFrom("predict_proba")
    /\ last.call.X.type = "ndarray"
    /\ IsFull(target_estimator)

====
